---- MODULE Spec2Model ----
(***************************************************************************)
(* Model of the two concurrent engines of icecast-hdhomerun:               *)
(*   - ProcessRunner (src/src/process_runner.py): the single-slot process  *)
(*     supervisor with its intake thread (_manage), its per-request        *)
(*     watcher threads (_start) and stop();                                *)
(*   - PipeWriter (src/src/pipe_writer.py): the bounded audio relay with   *)
(*     its drop-oldest chunk buffer, reader thread and writer thread.      *)
(* Every step that reads or writes shared state (self._process, the        *)
(* Popen.returncode attribute, the deque, the semaphore, the flags) is one *)
(* action, so the interleavings of the threads are those of the code.      *)
(***************************************************************************)
EXTENDS Integers, Sequences, FiniteSets, TLC

(***************************************************************************)
(* Bounds of the model.                                                    *)
(***************************************************************************)
\* start() calls made by clients of one ProcessRunner
MaxRequests == 2
\* children spawned over the whole run (relaunches included)
MaxSpawn == 3
\* iterations of each polling stage of stop(); stands for range(0, 50)
PollIters == 1
\* chunks the source delivers over the whole run of a relay
MaxReads == 7
\* size of one chunk, in units of one partial write; stands for IO_CHUNK_SIZE
ChunkUnits == 2
\* room of the kernel's pipe buffer behind the destination FIFO, in the same units
PipeCap == 2
\* chunks of one second of audio; stands for the 87 of pipe_writer.py line 36
BUFFER_CHUNKS == 3
\* largest capacity and longest push sequence tried on a chunk buffer alone
MaxCap == 10
MaxPush == 10
\* PipeWriter.wait() calls made on one relay
MaxWaits == 2
\* stop() and wait() calls made by the clients of one ProcessRunner
MaxCalls == 2

(***************************************************************************)
(* Values.                                                                 *)
(***************************************************************************)
\* Python's None for an optional integer: the empty tuple; <<c>> is the int c
None == <<>>
Some(c) == <<c>>
\* the ProcessState members the supervisor reports
STARTED == "STARTED"
STOPPED == "STOPPED"
\* the ProcessState members a relay could report
FINISHED == "FINISHED"
ERROR == "ERROR"
\* signal numbers behind Popen.terminate() and Popen.kill()
SIGTERM == 15
SIGKILL == 9
\* exit codes a child chooses itself (on its own, or in a SIGTERM handler)
OwnExitCodes == {0, 1}
\* MAX_CHUNKS = ceil(BUFFER_CHUNKS * 1.2)
MAX_CHUNKS == (BUFFER_CHUNKS * 12 + 9) \div 10
\* what read() returns at the end of the stream: b"", a chunk of no bytes
EmptyChunk == 0
\* before any callback
NoCallback == [state |-> "none", rc |-> None, w |-> 0]
\* the intake thread's request tuple while it holds none
NoRequest == [id |-> 0, restart |-> FALSE, cmd |-> None]
\* a command vector
Command == <<"sleep", "60">>

VARIABLES
  queue,      \* self._queue: requests not yet taken by the intake thread
  nreq,       \* number of start() calls so far
  process,    \* self._process: 0 for None, else the index of a Popen in procs
  watcher,    \* self._watcher: 0 for None, else the id of a watcher thread
  procs,      \* every Popen object created so far, in spawn order
  mpc,        \* intake thread: position in _manage
  mreq,       \* intake thread: the request being served
  wpc,        \* watcher threads: position in _start
  wrestart,   \* watcher threads: the restart argument
  wobj,       \* watcher threads: the Popen whose wait() the thread is in
  spc,        \* callers of stop(): position in stop()
  si,         \* callers of stop(): loop variable i
  sret,       \* callers of stop(): last value returned
  sterm,      \* callers of stop(): the Popen terminate() was called on
  skill,      \* callers of stop(): the Popen kill() was called on
  lastcb,     \* the lifecycle callback delivered last: state, code, calling watcher
  nonereq,    \* the ids of the start() calls whose command was None
  xw_pc,      \* the caller of ProcessRunner.wait(): position in wait()
  xwobj,      \* the caller of ProcessRunner.wait(): the Popen whose wait() it is in
  ncalls,     \* stop() and wait() calls made by clients so far
  piped,      \* the streams each start() call asked to have piped, by request id
  owntone_output, \* Radio.owntone_output: 0 for None, else the index of a relay in relays
  relays,     \* every PipeWriter the orchestrator has created, in order of creation
  rwait,      \* watcher threads: the relay whose wait() the STOPPED callback is in
  audio_buffers,     \* self._audio_buffers: the deque of chunks, oldest first
  maxlen,            \* the deque's maxlen
  audio_available,   \* self._audio_available: the semaphore's value
  done,              \* self._done: the stop flag
  writer_is_running, \* self.writer_is_running: the Event
  rd_pc,             \* reader thread: position in _reader
  buffering,         \* reader thread: the local buffering
  audio,             \* reader thread: the chunk just read, 0 for none
  nread,             \* chunks read from the source so far; chunk k is the k-th read
  wr_pc,             \* writer thread: position in _writer
  wr_audio,          \* writer thread: the chunk being written, 0 for none
  written,           \* writer thread: units of wr_audio written so far
  consumer,          \* whether a consumer holds the destination FIFO open for reading
  pipe,              \* units in the kernel's pipe buffer of the FIFO
  nevict,            \* chunks the deque has discarded so far
  callback,          \* self._callback of the relay: whether bind() has set it
  wt_pc,             \* the caller of PipeWriter.wait(): position in wait()
  nwait,             \* PipeWriter.wait() calls so far
  pw_cb,             \* the states the relay has passed to its callback, in order
  is_fifo,           \* whether the destination path named a FIFO at construction
  lastpop,           \* history: the chunk the writer popped last, 0 for none
  attach_hi,         \* history: the chunks pushed when the consumer attached last
  audio_out,         \* writer thread: the local audio_out: "none", "open" or "closed"
  eof,               \* whether the far end of the source has been closed
  source_open        \* whether self._audio_in is still open

\* the orchestrator's relay reference and the relays it has created
raVars == <<owntone_output, relays, rwait>>

\* None requests and the clients that call stop() and wait() themselves
xVars == <<nonereq, xw_pc, xwobj, ncalls, piped, raVars>>

prVars == <<queue, nreq, process, watcher, procs, mpc, mreq, wpc, wrestart, wobj,
            spc, si, sret, sterm, skill, lastcb, xVars>>

\* the two file objects of the relay and the far end of the source
ioVars == <<audio_out, eof, source_open>>

\* the relay's callback and the caller of its wait()
wtVars == <<callback, wt_pc, nwait, pw_cb, is_fifo>>

pwVars == <<audio_buffers, maxlen, audio_available, done, writer_is_running,
            rd_pc, buffering, audio, nread, wr_pc, wr_audio, written,
            consumer, pipe, nevict, wtVars, lastpop, attach_hi, ioVars>>

vars == <<prVars, pwVars>>

Watchers == 1..MaxRequests
\* the threads that run stop(): the intake thread, a client, and a watcher
\* thread from inside the lifecycle callback
Callers == {"mgr", "ext", "cb"}

(***************************************************************************)
(* The children and the Popen objects that stand for them.                 *)
(***************************************************************************)
Children == 1..Len(procs)

\* a child that has not exited yet
Alive(p) == procs[p].os = "alive"
LiveChildren == {p \in Children : Alive(p)}

\* some thread sits in Popen.wait() on p and so holds p's _waitpid_lock
WaitLockHeld(p) ==
  \/ \E w \in Watchers : wpc[w] = "wait" /\ wobj[w] = p
  \/ xw_pc = "blocked" /\ xwobj = p

\* the three standard streams of a child
Streams == {"stdin", "stdout", "stderr"}

\* the file object Popen p holds for stream s once it was asked to pipe it
PipeOf(p, s) == <<p, s>>

\* lines 66-68: subprocess.PIPE for a stream whose argument is true, else None
PopenPipes(streams) == [s \in Streams |-> s \in streams]

\* subprocess.Popen(...): a new child in its own session, returncode None;
\* its stdin, stdout and stderr attributes are the pipes asked for, else None
NewPopen(r) == [req |-> r, os |-> "alive", exit |-> None, returncode |-> None,
                term |-> FALSE, kill |-> FALSE, pipes |-> PopenPipes(piped[r])]

\* lines 117-127: get_stdin(), get_stdout(), get_stderr()
get_stream(s) ==
  IF process = 0 THEN None
  ELSE IF procs[process].pipes[s] THEN PipeOf(process, s) ELSE None
get_stdin == get_stream("stdin")
get_stdout == get_stream("stdout")
get_stderr == get_stream("stderr")

\* a send_signal() that does not poll: os.kill() when the child is alive
send_signal_blind(ps, p, sig) ==
  IF ps[p].os = "alive"
    THEN IF sig = SIGTERM THEN [ps EXCEPT ![p].term = TRUE]
                          ELSE [ps EXCEPT ![p].kill = TRUE]
    ELSE ps

\* Popen.send_signal(sig): poll() first (which learns nothing while a waiter
\* holds the lock), skip the signal when an exit is known, else os.kill()
send_signal(ps, p, sig) ==
  IF ps[p].returncode # None THEN ps
  ELSE IF ~WaitLockHeld(p) /\ ps[p].os = "zombie"
       THEN [ps EXCEPT ![p].returncode = ps[p].exit, ![p].os = "reaped"]
  ELSE IF ps[p].os = "alive"
       THEN IF sig = SIGTERM THEN [ps EXCEPT ![p].term = TRUE]
                             ELSE [ps EXCEPT ![p].kill = TRUE]
  ELSE ps

\* an is_running() that forgets the exit code
is_running_ignores_returncode == process # 0

\* is_running(): a child exists and has not reported an exit code
is_running == process # 0 /\ procs[process].returncode = None

(***************************************************************************)
(* The operating system: a child exits on its own or in a SIGTERM handler  *)
(* with a code of its choice, or dies of a signal it was sent.             *)
(***************************************************************************)
ChildExit(p, c) ==
  /\ Alive(p)
  /\ procs' = [procs EXCEPT ![p].os = "zombie", ![p].exit = Some(c),
                              ![p].term = FALSE, ![p].kill = FALSE]
  /\ UNCHANGED <<pwVars, xVars, queue, nreq, process, watcher, mpc, mreq, wpc, wrestart, wobj,
                 spc, si, sret, sterm, skill, lastcb>>

ChildDies(p) ==
  /\ Alive(p)
  /\ \E sig \in {SIGTERM, SIGKILL} :
       /\ IF sig = SIGTERM THEN procs[p].term ELSE procs[p].kill
       /\ procs' = [procs EXCEPT ![p].os = "zombie", ![p].exit = Some(-sig),
                                 ![p].term = FALSE, ![p].kill = FALSE]
  /\ UNCHANGED <<pwVars, xVars, queue, nreq, process, watcher, mpc, mreq, wpc, wrestart, wobj,
                 spc, si, sret, sterm, skill, lastcb>>

(***************************************************************************)
(* ProcessRunner.start(): enqueue the request.                             *)
(***************************************************************************)
\* lines 32-36: the tuple carries the stdin, stdout and stderr arguments too
start_piped(restart, streams) ==
  /\ nreq < MaxRequests
  /\ nreq' = nreq + 1
  /\ queue' = Append(queue, [id |-> nreq + 1, restart |-> restart, cmd |-> Command])
  /\ piped' = [piped EXCEPT ![nreq + 1] = streams]
  /\ UNCHANGED <<pwVars, raVars, nonereq, xw_pc, xwobj, ncalls, process, watcher, procs, mpc, mreq, wpc, wrestart, wobj,
                 spc, si, sret, sterm, skill, lastcb>>

\* start(command, restart): stdin, stdout and stderr default to False
start(restart) == start_piped(restart, {})

(***************************************************************************)
(* ProcessRunner.stop(), as run by caller c.                               *)
(***************************************************************************)
\* the condition before a return statement has been decided: v is returned next
stop_decide(c, v) ==
  /\ spc' = [spc EXCEPT ![c] = "return"]
  /\ sret' = [sret EXCEPT ![c] = v]

\* lines 108 and 109: the return statement itself
stop_return(c) ==
  /\ spc[c] = "return"
  /\ spc' = [spc EXCEPT ![c] = "ret"]
  /\ UNCHANGED <<pwVars, xVars, queue, nreq, process, watcher, procs, mpc, mreq, wpc, wrestart, wobj,
                 si, sret, sterm, skill, lastcb>>

\* line 92: nothing to stop unless a child exists without a returncode
stop_enter(c) ==
  /\ spc[c] = "enter"
  /\ IF is_running
       THEN /\ spc' = [spc EXCEPT ![c] = "terminate"]
            /\ UNCHANGED sret
       ELSE stop_decide(c, TRUE)
  /\ UNCHANGED <<pwVars, xVars, queue, nreq, process, watcher, procs, mpc, mreq, wpc, wrestart, wobj,
                 si, sterm, skill, lastcb>>

\* line 94: self._process.terminate()
stop_terminate(c) ==
  /\ spc[c] = "terminate"
  /\ procs' = send_signal(procs, process, SIGTERM)
  /\ sterm' = [sterm EXCEPT ![c] = process]
  /\ spc' = [spc EXCEPT ![c] = "poll1"]
  /\ si' = [si EXCEPT ![c] = 0]
  /\ UNCHANGED <<pwVars, xVars, queue, nreq, process, watcher, mpc, mreq, wpc, wrestart, wobj,
                 sret, skill, lastcb>>

\* a loop variable that does not advance
next_i_stuck(i) == i

\* lines 95 and 103: the next value of i in range(0, 50)
next_i(i) == i + 1

\* lines 95-98: for i in range(...): break on a returncode, else sleep
stop_poll1(c) ==
  /\ spc[c] = "poll1"
  /\ IF si[c] < PollIters /\ procs[process].returncode = None
       THEN /\ si' = [si EXCEPT ![c] = next_i(si[c])]
            /\ UNCHANGED spc
       ELSE /\ spc' = [spc EXCEPT ![c] = "check1"]
            /\ UNCHANGED si
  /\ UNCHANGED <<pwVars, xVars, queue, nreq, process, watcher, procs, mpc, mreq, wpc, wrestart, wobj,
                 sret, sterm, skill, lastcb>>

\* line 100: escalate only when self._process has no returncode
stop_check1(c) ==
  /\ spc[c] = "check1"
  /\ IF procs[process].returncode = None
       THEN /\ spc' = [spc EXCEPT ![c] = "kill"]
            /\ UNCHANGED sret
       ELSE stop_decide(c, TRUE)
  /\ UNCHANGED <<pwVars, xVars, queue, nreq, process, watcher, procs, mpc, mreq, wpc, wrestart, wobj,
                 si, sterm, skill, lastcb>>

\* line 102: self._process.kill()
stop_kill(c) ==
  /\ spc[c] = "kill"
  /\ procs' = send_signal(procs, process, SIGKILL)
  /\ skill' = [skill EXCEPT ![c] = process]
  /\ spc' = [spc EXCEPT ![c] = "poll2"]
  /\ si' = [si EXCEPT ![c] = 0]
  /\ UNCHANGED <<pwVars, xVars, queue, nreq, process, watcher, mpc, mreq, wpc, wrestart, wobj,
                 sret, sterm, lastcb>>

\* lines 103-106: the second polling stage
stop_poll2(c) ==
  /\ spc[c] = "poll2"
  /\ IF si[c] < PollIters /\ procs[process].returncode = None
       THEN /\ si' = [si EXCEPT ![c] = next_i(si[c])]
            /\ UNCHANGED spc
       ELSE /\ spc' = [spc EXCEPT ![c] = "check2"]
            /\ UNCHANGED si
  /\ UNCHANGED <<pwVars, xVars, queue, nreq, process, watcher, procs, mpc, mreq, wpc, wrestart, wobj,
                 sret, sterm, skill, lastcb>>

\* line 107: False when there is still no returncode, else True
stop_check2(c) ==
  /\ spc[c] = "check2"
  /\ stop_decide(c, procs[process].returncode # None)
  /\ UNCHANGED <<pwVars, xVars, queue, nreq, process, watcher, procs, mpc, mreq, wpc, wrestart, wobj,
                 si, sterm, skill, lastcb>>

\* one step of stop() by caller c
stop(c) ==
  \/ stop_enter(c)
  \/ stop_terminate(c)
  \/ stop_poll1(c)
  \/ stop_check1(c)
  \/ stop_kill(c)
  \/ stop_poll2(c)
  \/ stop_check2(c)
  \/ stop_return(c)

\* the caller has its value; the locals of the call are gone
stop_forget(c) ==
  /\ spc' = [spc EXCEPT ![c] = "idle"]
  /\ si' = [si EXCEPT ![c] = 0]
  /\ sret' = [sret EXCEPT ![c] = TRUE]
  /\ sterm' = [sterm EXCEPT ![c] = 0]
  /\ skill' = [skill EXCEPT ![c] = 0]

(***************************************************************************)
(* ProcessRunner._manage(): the intake thread.                             *)
(***************************************************************************)
\* a join that accepts None
join_raises_never(command) == FALSE

\* line 45: " ".join(command) raises TypeError when command is None
join_raises(command) == command = None

\* lines 43-48 and 53-55: take the next request; an exception of line 45 is
\* caught and logged and the loop goes on; else the old command is stopped
\* when is_running()
manage_get ==
  /\ mpc = "get"
  /\ queue # <<>>
  /\ queue' = Tail(queue)
  /\ IF join_raises(Head(queue).cmd)
       THEN /\ mpc' = "get"
            /\ UNCHANGED <<mreq, spc>>
       ELSE /\ mreq' = Head(queue)
            /\ IF is_running
                 THEN /\ mpc' = "stop"
                      /\ spc' = [spc EXCEPT !["mgr"] = "enter"]
                 ELSE /\ mpc' = "launch"
                      /\ UNCHANGED spc
  /\ UNCHANGED <<pwVars, xVars, nreq, process, watcher, procs, wpc, wrestart, wobj,
                 si, sret, sterm, skill, lastcb>>

\* lines 48-49: stop() has returned and its value is dropped; join(timeout=2)
\* returns when the old watcher has ended or when the two seconds are over,
\* whichever comes first
manage_join ==
  /\ mpc = "stop"
  /\ spc["mgr"] = "ret"
  /\ mpc' = "launch"
  /\ stop_forget("mgr")
  /\ UNCHANGED <<pwVars, xVars, queue, nreq, process, watcher, procs, mreq, wpc, wrestart, wobj,
                 lastcb>>

\* lines 50-51: a new watcher thread for the request
manage_launch ==
  /\ mpc = "launch"
  /\ watcher' = mreq.id
  /\ wpc' = [wpc EXCEPT ![mreq.id] = "popen"]
  /\ wrestart' = [wrestart EXCEPT ![mreq.id] = mreq.restart]
  /\ mpc' = "get"
  /\ mreq' = NoRequest
  /\ UNCHANGED <<pwVars, xVars, queue, nreq, process, procs, wobj,
                 spc, si, sret, sterm, skill, lastcb>>

(***************************************************************************)
(* ProcessRunner._start(): the watcher thread w of one request.            *)
(***************************************************************************)
\* lines 61-62 and 65-71: raise when the command is None; else spawn the child
\* and store it in self._process
start_popen(w) ==
  /\ wpc[w] = "popen"
  /\ IF w \in nonereq
       THEN /\ wpc' = [wpc EXCEPT ![w] = "raised"]
            /\ UNCHANGED <<procs, process>>
       ELSE /\ Len(procs) < MaxSpawn
            /\ procs' = Append(procs, NewPopen(w))
            /\ process' = Len(procs) + 1
            /\ wpc' = [wpc EXCEPT ![w] = "started"]
  /\ UNCHANGED <<pwVars, xVars, queue, nreq, watcher, mpc, mreq, wrestart, wobj,
                 spc, si, sret, sterm, skill, lastcb>>

\* lines 65-71: Popen raises (the command cannot be executed); nothing catches
\* it in _start, the thread ends, self._process keeps the value it had
start_popen_raises(w) ==
  /\ wpc[w] = "popen"
  /\ w \notin nonereq
  /\ wpc' = [wpc EXCEPT ![w] = "raised"]
  /\ UNCHANGED <<pwVars, xVars, queue, nreq, process, watcher, procs, mpc, mreq, wrestart,
                 wobj, spc, si, sret, sterm, skill, lastcb>>

\* lines 72-73: callback(STARTED, 0)
start_callback_started(w) ==
  /\ wpc[w] = "started"
  /\ lastcb' = [state |-> STARTED, rc |-> Some(0), w |-> w]
  /\ wpc' = [wpc EXCEPT ![w] = "prewait"]
  /\ UNCHANGED <<pwVars, xVars, queue, nreq, process, watcher, procs, mpc, mreq, wrestart, wobj,
                 spc, si, sret, sterm, skill>>

\* lines 72-73 with radio.py lines 247-256 and 165-167: the STARTED callback of
\* the orchestrator finds its relay not running and calls Radio.stop(), which
\* calls stop() of the supervisor when is_running(); all on the watcher thread
callback_stop_call(w) ==
  /\ wpc[w] = "started"
  /\ spc["cb"] = "idle"
  /\ lastcb' = [state |-> STARTED, rc |-> Some(0), w |-> w]
  /\ IF is_running
       THEN /\ wpc' = [wpc EXCEPT ![w] = "in_started"]
            /\ spc' = [spc EXCEPT !["cb"] = "enter"]
       ELSE /\ wpc' = [wpc EXCEPT ![w] = "prewait"]
            /\ UNCHANGED spc
  /\ UNCHANGED <<pwVars, xVars, queue, nreq, process, watcher, procs, mpc, mreq, wrestart, wobj,
                 si, sret, sterm, skill>>

\* radio.py lines 167-182 and 258: stop() has returned its value to the
\* callback, and the callback returns to line 75
callback_stop_done(w) ==
  /\ wpc[w] = "in_started"
  /\ spc["cb"] = "ret"
  /\ stop_forget("cb")
  /\ wpc' = [wpc EXCEPT ![w] = "prewait"]
  /\ UNCHANGED <<pwVars, xVars, queue, nreq, process, watcher, procs, mpc, mreq, wrestart, wobj,
                 lastcb>>

\* line 76: self._process is read and its wait() entered
start_wait(w) ==
  /\ wpc[w] = "prewait"
  /\ wobj' = [wobj EXCEPT ![w] = process]
  /\ wpc' = [wpc EXCEPT ![w] = "wait"]
  /\ UNCHANGED <<pwVars, xVars, queue, nreq, process, watcher, procs, mpc, mreq, wrestart,
                 spc, si, sret, sterm, skill, lastcb>>

\* line 76: wait() returns once the child is reaped, by this thread or another
start_reap(w) ==
  /\ wpc[w] = "wait"
  /\ \/ /\ procs[wobj[w]].returncode # None
        /\ UNCHANGED procs
     \/ /\ procs[wobj[w]].returncode = None
        /\ procs[wobj[w]].os = "zombie"
        /\ procs' = [procs EXCEPT ![wobj[w]].returncode = procs[wobj[w]].exit,
                                  ![wobj[w]].os = "reaped"]
  /\ wpc' = [wpc EXCEPT ![w] = "stopped"]
  /\ UNCHANGED <<pwVars, xVars, queue, nreq, process, watcher, mpc, mreq, wrestart, wobj,
                 spc, si, sret, sterm, skill, lastcb>>

\* lines 79-80: callback(STOPPED, self._process.returncode)
start_callback_stopped(w) ==
  /\ wpc[w] = "stopped"
  /\ lastcb' = [state |-> STOPPED, rc |-> procs[process].returncode, w |-> w]
  /\ wpc' = [wpc EXCEPT ![w] = "test"]
  /\ UNCHANGED <<pwVars, xVars, queue, nreq, process, watcher, procs, mpc, mreq, wrestart, wobj,
                 spc, si, sret, sterm, skill>>

(***************************************************************************)
(* Radio._process_state_change() with the local pipe selected: the         *)
(* lifecycle callback of the orchestrator, run on the watcher thread.      *)
(***************************************************************************)
\* PipeWriter(audio_in, pipe) on a FIFO: both threads running, _done False
NewRelay(w, audio_in) == [w |-> w, audio_in |-> audio_in, done |-> FALSE, ended |-> FALSE]

\* lines 72-73 with radio.py lines 247-258: STARTED; a relay is made on
\* get_stdout() of the supervisor and stored in self.owntone_output; it is
\* running, so Radio.stop() is not called
radio_started(w) ==
  /\ wpc[w] = "started"
  /\ lastcb' = [state |-> STARTED, rc |-> Some(0), w |-> w]
  /\ relays' = Append(relays, NewRelay(w, get_stdout))
  /\ owntone_output' = Len(relays) + 1
  /\ wpc' = [wpc EXCEPT ![w] = "prewait"]
  /\ UNCHANGED <<pwVars, nonereq, xw_pc, xwobj, ncalls, piped, rwait, queue, nreq, process,
                 watcher, procs, mpc, mreq, wrestart, wobj, spc, si, sret, sterm, skill>>

\* lines 79-80 with radio.py lines 260-264 and 270-273: STOPPED; without a
\* relay reference the callback reports and returns
radio_stopped(w) ==
  /\ wpc[w] = "stopped"
  /\ lastcb' = [state |-> STOPPED, rc |-> procs[process].returncode, w |-> w]
  /\ wpc' = [wpc EXCEPT ![w] = IF owntone_output # 0 THEN "cb_is_running" ELSE "test"]
  /\ UNCHANGED <<pwVars, xVars, queue, nreq, process, watcher, procs, mpc, mreq, wrestart, wobj,
                 spc, si, sret, sterm, skill>>

\* radio.py line 265: self.owntone_output.is_running(); the attribute is read
\* again, and None has no is_running: AttributeError ends the watcher thread
radio_stopped_is_running(w) ==
  /\ wpc[w] = "cb_is_running"
  /\ wpc' = [wpc EXCEPT ![w] = IF owntone_output # 0 THEN "cb_stop" ELSE "raised"]
  /\ UNCHANGED <<pwVars, xVars, queue, nreq, process, watcher, procs, mpc, mreq, wrestart, wobj,
                 spc, si, sret, sterm, skill, lastcb>>

\* radio.py line 267 and pipe_writer.py line 96: self.owntone_output.stop()
\* sets _done of the relay the attribute refers to now
radio_stopped_stop(w) ==
  /\ wpc[w] = "cb_stop"
  /\ IF owntone_output # 0
       THEN /\ relays' = [relays EXCEPT ![owntone_output].done = TRUE]
            /\ wpc' = [wpc EXCEPT ![w] = "cb_wait"]
       ELSE /\ wpc' = [wpc EXCEPT ![w] = "raised"]
            /\ UNCHANGED relays
  /\ UNCHANGED <<pwVars, nonereq, xw_pc, xwobj, ncalls, piped, owntone_output, rwait, queue,
                 nreq, process, watcher, procs, mpc, mreq, wrestart, wobj, spc, si, sret,
                 sterm, skill, lastcb>>

\* radio.py line 268: self.owntone_output.wait() is entered on the relay the
\* attribute refers to now
radio_stopped_wait(w) ==
  /\ wpc[w] = "cb_wait"
  /\ IF owntone_output # 0
       THEN /\ rwait' = [rwait EXCEPT ![w] = owntone_output]
            /\ wpc' = [wpc EXCEPT ![w] = "cb_waiting"]
       ELSE /\ wpc' = [wpc EXCEPT ![w] = "raised"]
            /\ UNCHANGED rwait
  /\ UNCHANGED <<pwVars, nonereq, xw_pc, xwobj, ncalls, piped, owntone_output, relays, queue,
                 nreq, process, watcher, procs, mpc, mreq, wrestart, wobj, spc, si, sret,
                 sterm, skill, lastcb>>

\* pipe_writer.py lines 105-114: wait() returns when neither thread of the
\* relay is alive
radio_stopped_waited(w) ==
  /\ wpc[w] = "cb_waiting"
  /\ relays[rwait[w]].ended
  /\ rwait' = [rwait EXCEPT ![w] = 0]
  /\ wpc' = [wpc EXCEPT ![w] = "cb_clear"]
  /\ UNCHANGED <<pwVars, nonereq, xw_pc, xwobj, ncalls, piped, owntone_output, relays, queue,
                 nreq, process, watcher, procs, mpc, mreq, wrestart, wobj, spc, si, sret,
                 sterm, skill, lastcb>>

\* radio.py lines 269-273: self.owntone_output = None, and the callback returns
radio_stopped_clear(w) ==
  /\ wpc[w] = "cb_clear"
  /\ owntone_output' = 0
  /\ wpc' = [wpc EXCEPT ![w] = "test"]
  /\ UNCHANGED <<pwVars, nonereq, xw_pc, xwobj, ncalls, piped, relays, rwait, queue,
                 nreq, process, watcher, procs, mpc, mreq, wrestart, wobj, spc, si, sret,
                 sterm, skill, lastcb>>

\* pipe_writer.py lines 125, 136 and 191: the threads of a relay end once its
\* _done is set
relay_threads_end(r) ==
  /\ relays[r].done
  /\ ~relays[r].ended
  /\ relays' = [relays EXCEPT ![r].ended = TRUE]
  /\ UNCHANGED <<pwVars, nonereq, xw_pc, xwobj, ncalls, piped, owntone_output, rwait, queue,
                 nreq, process, watcher, procs, mpc, mreq, wpc, wrestart, wobj, spc, si, sret,
                 sterm, skill, lastcb>>

\* lines 82-83: leave the loop unless restart and a non-negative returncode;
\* None < 0 raises TypeError, which ends the thread
start_test(w) ==
  /\ wpc[w] = "test"
  /\ wpc' = [wpc EXCEPT ![w] =
       IF ~wrestart[w] THEN "done"
       ELSE IF procs[process].returncode = None THEN "raised"
       ELSE IF procs[process].returncode[1] < 0 THEN "done"
       ELSE "popen"]
  /\ wobj' = [wobj EXCEPT ![w] = 0]
  /\ UNCHANGED <<pwVars, xVars, queue, nreq, process, watcher, procs, mpc, mreq, wrestart,
                 spc, si, sret, sterm, skill, lastcb>>

(***************************************************************************)
(* The clients of a ProcessRunner: start() without a command, stop() and   *)
(* wait() called from a thread of the client.                              *)
(***************************************************************************)
\* lines 32-36: start(None, restart) enqueues like any other request
start_none(restart) ==
  /\ nreq < MaxRequests
  /\ nreq' = nreq + 1
  /\ queue' = Append(queue, [id |-> nreq + 1, restart |-> restart, cmd |-> None])
  /\ nonereq' = nonereq \cup {nreq + 1}
  /\ UNCHANGED <<piped, raVars, pwVars, process, watcher, procs, mpc, mreq, wpc, wrestart, wobj,
                 spc, si, sret, sterm, skill, lastcb, xw_pc, xwobj, ncalls>>

\* a client that calls start() once
client_start(restart) == nreq = 0 /\ start(restart)

\* a client that passes a command to start() once, among calls that pass None
command_start(restart) == nreq = Cardinality(nonereq) /\ start(restart)

\* line 88: a client enters stop()
ext_stop_call ==
  /\ spc["ext"] = "idle"
  /\ ncalls < MaxCalls
  /\ ncalls' = ncalls + 1
  /\ spc' = [spc EXCEPT !["ext"] = "enter"]
  /\ UNCHANGED <<piped, raVars, pwVars, queue, nreq, process, watcher, procs, mpc, mreq, wpc, wrestart,
                 wobj, si, sret, sterm, skill, lastcb, nonereq, xw_pc, xwobj>>

\* the client has the value stop() returned
ext_stop_done ==
  /\ spc["ext"] = "ret"
  /\ stop_forget("ext")
  /\ UNCHANGED <<pwVars, xVars, queue, nreq, process, watcher, procs, mpc, mreq, wpc,
                 wrestart, wobj, lastcb>>

\* a wait() that never waits
wait_needed_never == FALSE

\* line 113: the condition of wait()
wait_needed == process # 0 /\ procs[process].returncode = None

\* line 111: a client enters wait()
pr_wait_call ==
  /\ xw_pc = "idle"
  /\ ncalls < MaxCalls
  /\ ncalls' = ncalls + 1
  /\ xw_pc' = "enter"
  /\ UNCHANGED <<piped, raVars, pwVars, queue, nreq, process, watcher, procs, mpc, mreq, wpc, wrestart,
                 wobj, spc, si, sret, sterm, skill, lastcb, nonereq, xwobj>>

\* line 113: return at once unless a child exists without a returncode
pr_wait_enter ==
  /\ xw_pc = "enter"
  /\ xw_pc' = IF wait_needed THEN "call" ELSE "ret"
  /\ UNCHANGED <<piped, raVars, pwVars, queue, nreq, process, watcher, procs, mpc, mreq, wpc, wrestart,
                 wobj, spc, si, sret, sterm, skill, lastcb, nonereq, xwobj, ncalls>>

\* line 115: self._process is read again and its wait() entered
pr_wait_popen_wait ==
  /\ xw_pc = "call"
  /\ xwobj' = process
  /\ xw_pc' = "blocked"
  /\ UNCHANGED <<piped, raVars, pwVars, queue, nreq, process, watcher, procs, mpc, mreq, wpc, wrestart,
                 wobj, spc, si, sret, sterm, skill, lastcb, nonereq, ncalls>>

\* line 115: Popen.wait() returns once the child is reaped, by this thread or
\* by another
pr_wait_reap ==
  /\ xw_pc = "blocked"
  /\ \/ /\ procs[xwobj].returncode # None
        /\ UNCHANGED procs
     \/ /\ procs[xwobj].returncode = None
        /\ procs[xwobj].os = "zombie"
        /\ procs' = [procs EXCEPT ![xwobj].returncode = procs[xwobj].exit,
                                  ![xwobj].os = "reaped"]
  /\ xw_pc' = "ret"
  /\ UNCHANGED <<piped, raVars, pwVars, queue, nreq, process, watcher, mpc, mreq, wpc, wrestart,
                 wobj, spc, si, sret, sterm, skill, lastcb, nonereq, xwobj, ncalls>>

\* wait() has returned to the client
pr_wait_done ==
  /\ xw_pc = "ret"
  /\ xw_pc' = "idle"
  /\ xwobj' = 0
  /\ UNCHANGED <<piped, raVars, pwVars, queue, nreq, process, watcher, procs, mpc, mreq, wpc, wrestart,
                 wobj, spc, si, sret, sterm, skill, lastcb, nonereq, ncalls>>

pr_wait == pr_wait_call \/ pr_wait_enter \/ pr_wait_popen_wait \/ pr_wait_reap \/ pr_wait_done

(***************************************************************************)
(* The supervisor as a whole.                                              *)
(***************************************************************************)
InitPR ==
  /\ queue = <<>>
  /\ nreq = 0
  /\ process = 0
  /\ watcher = 0
  /\ procs = <<>>
  /\ mpc = "get"
  /\ mreq = NoRequest
  /\ wpc = [w \in Watchers |-> "unborn"]
  /\ wrestart = [w \in Watchers |-> FALSE]
  /\ wobj = [w \in Watchers |-> 0]
  /\ spc = [c \in Callers |-> "idle"]
  /\ si = [c \in Callers |-> 0]
  /\ sret = [c \in Callers |-> TRUE]
  /\ sterm = [c \in Callers |-> 0]
  /\ skill = [c \in Callers |-> 0]
  /\ lastcb = NoCallback
  /\ nonereq = {}
  /\ xw_pc = "idle"
  /\ xwobj = 0
  /\ ncalls = 0
  /\ piped = [r \in 1..MaxRequests |-> {}]
  /\ owntone_output = 0
  /\ relays = <<>>
  /\ rwait = [w \in Watchers |-> 0]

NextPR ==
  \/ \E r \in BOOLEAN : start(r)
  \/ \E c \in Callers : stop(c)
  \/ manage_get
  \/ manage_join
  \/ manage_launch
  \/ \E w \in Watchers : start_popen(w)
  \/ \E w \in Watchers : start_callback_started(w)
  \/ \E w \in Watchers : start_wait(w)
  \/ \E w \in Watchers : start_reap(w)
  \/ \E w \in Watchers : start_callback_stopped(w)
  \/ \E w \in Watchers : start_test(w)
  \/ \E p \in Children, c \in OwnExitCodes : ChildExit(p, c)
  \/ \E p \in Children : ChildDies(p)

\* the supervisor under a client that passes None for the command, but for
\* one call
NextPRNone ==
  \/ \E r \in BOOLEAN : command_start(r)
  \/ \E r \in BOOLEAN : start_none(r)
  \/ manage_get
  \/ manage_launch
  \/ \E w \in Watchers : start_popen(w)
  \/ \E w \in Watchers : start_callback_started(w)
  \/ \E w \in Watchers : start_wait(w)
  \/ \E w \in Watchers : start_reap(w)
  \/ \E w \in Watchers : start_callback_stopped(w)
  \/ \E w \in Watchers : start_test(w)
  \/ \E p \in Children, c \in OwnExitCodes : ChildExit(p, c)

\* the supervisor under a client that calls start() once and then stop() and
\* wait() from its own threads
NextPRClient ==
  \/ \E r \in BOOLEAN : client_start(r)
  \/ manage_get
  \/ manage_launch
  \/ \E w \in Watchers : start_popen(w)
  \/ \E w \in Watchers : start_popen_raises(w)
  \/ \E w \in Watchers : start_callback_started(w)
  \/ \E w \in Watchers : start_wait(w)
  \/ \E w \in Watchers : start_reap(w)
  \/ \E w \in Watchers : start_callback_stopped(w)
  \/ \E w \in Watchers : start_test(w)
  \/ \E p \in Children, c \in OwnExitCodes : ChildExit(p, c)
  \/ \E p \in Children : ChildDies(p)
  \/ ext_stop_call
  \/ stop("ext")
  \/ ext_stop_done
  \/ pr_wait

\* the supervisor under a client that calls start() once and whose STARTED
\* callback may call stop()
NextPRCallback ==
  \/ \E r \in BOOLEAN : client_start(r)
  \/ manage_get
  \/ manage_launch
  \/ \E w \in Watchers : start_popen(w)
  \/ \E w \in Watchers : start_callback_started(w)
  \/ \E w \in Watchers : callback_stop_call(w)
  \/ stop("cb")
  \/ \E w \in Watchers : callback_stop_done(w)
  \/ \E w \in Watchers : start_wait(w)
  \/ \E w \in Watchers : start_reap(w)
  \/ \E w \in Watchers : start_callback_stopped(w)
  \/ \E w \in Watchers : start_test(w)
  \/ \E p \in Children, c \in OwnExitCodes : ChildExit(p, c)
  \/ \E p \in Children : ChildDies(p)

\* the supervisor under the orchestrator with the local pipe selected:
\* play() passes restart=False and stdout=True (radio.py line 154)
NextRadio ==
  \/ start_piped(FALSE, {"stdout"})
  \/ stop("mgr")
  \/ manage_get
  \/ manage_join
  \/ manage_launch
  \/ \E w \in Watchers : start_popen(w)
  \/ \E w \in Watchers : radio_started(w)
  \/ \E w \in Watchers : start_wait(w)
  \/ \E w \in Watchers : start_reap(w)
  \/ \E w \in Watchers : radio_stopped(w)
  \/ \E w \in Watchers : radio_stopped_is_running(w)
  \/ \E w \in Watchers : radio_stopped_stop(w)
  \/ \E w \in Watchers : radio_stopped_wait(w)
  \/ \E w \in Watchers : radio_stopped_waited(w)
  \/ \E w \in Watchers : radio_stopped_clear(w)
  \/ \E w \in Watchers : start_test(w)
  \/ \E r \in 1..Len(relays) : relay_threads_end(r)
  \/ \E p \in Children, c \in OwnExitCodes : ChildExit(p, c)
  \/ \E p \in Children : ChildDies(p)

\* the supervisor under clients that ask for piped streams and no relaunch
NextPRStreams ==
  \/ \E s \in SUBSET Streams : start_piped(FALSE, s)
  \/ \E c \in Callers : stop(c)
  \/ manage_get
  \/ manage_join
  \/ manage_launch
  \/ \E w \in Watchers : start_popen(w)
  \/ \E w \in Watchers : start_callback_started(w)
  \/ \E w \in Watchers : start_wait(w)
  \/ \E w \in Watchers : start_reap(w)
  \/ \E w \in Watchers : start_callback_stopped(w)
  \/ \E w \in Watchers : start_test(w)
  \/ \E p \in Children, c \in OwnExitCodes : ChildExit(p, c)
  \/ \E p \in Children : ChildDies(p)

(***************************************************************************)
(* The chunk buffer: collections.deque(maxlen=n).                          *)
(***************************************************************************)
\* a deque that ignores its maxlen
deque_append_unbounded(q, n, x) == Append(q, x)

\* a bounded queue that refuses the new chunk when full
deque_append_drop_newest(q, n, x) == IF Len(q) >= n THEN q ELSE Append(q, x)

\* deque.append(x) on a deque of maxlen n: when full, the head is discarded
deque_append(q, n, x) == IF Len(q) >= n THEN Append(Tail(q), x) ELSE Append(q, x)

\* a pop from the wrong end: deque.pop()
deque_pop(q) == [item |-> q[Len(q)], rest |-> SubSeq(q, 1, Len(q) - 1)]

\* deque.popleft() on a deque that is not empty: the head and what is left
deque_popleft(q) == [item |-> Head(q), rest |-> Tail(q)]

\* a threshold at full capacity
ReachedStartupFull(len) == len >= MAX_CHUNKS

\* startup_buffer = MAX_CHUNKS / 2 is a float: len >= MAX_CHUNKS / 2
ReachedStartup(len) == 2 * len >= MAX_CHUNKS

(***************************************************************************)
(* PipeWriter.stop(): set the stop flag.                                   *)
(***************************************************************************)
pw_stop ==
  /\ ~done
  /\ done' = TRUE
  /\ UNCHANGED <<prVars, ioVars, lastpop, attach_hi, wtVars, audio_buffers, maxlen, audio_available, writer_is_running,
                 rd_pc, buffering, audio, nread, wr_pc, wr_audio, written,
                 consumer, pipe, nevict>>

(***************************************************************************)
(* PipeWriter._reader(): the reader thread.                                *)
(***************************************************************************)
\* line 191: while not self._done; past the loop comes the finally clause
rd_loop ==
  /\ rd_pc = "loop"
  /\ rd_pc' = IF done THEN "finally" ELSE "select"
  /\ UNCHANGED <<prVars, ioVars, lastpop, attach_hi, wtVars, audio_buffers, maxlen, audio_available, done, writer_is_running,
                 buffering, audio, nread, wr_pc, wr_audio, written,
                 consumer, pipe, nevict>>

\* line 192: select(0.1) times out, or reports the source readable; at the
\* end of the stream the source is readable at once, every time
rd_select ==
  /\ rd_pc = "select"
  /\ \/ ~eof /\ rd_pc' = "loop"
     \/ nread < MaxReads /\ rd_pc' = "read"
  /\ UNCHANGED <<prVars, ioVars, lastpop, attach_hi, wtVars, audio_buffers, maxlen, audio_available, done, writer_is_running,
                 buffering, audio, nread, wr_pc, wr_audio, written,
                 consumer, pipe, nevict>>

\* an except clause that leaves without the finally clause
after_read_error_leave == "exit"

\* lines 212-215: except IOError, then the finally clause
after_read_error == "finally"

\* line 195: read one chunk, which at the end of the stream is b""; an IOError
\* leaves the loop through lines 212-215
rd_read ==
  /\ rd_pc = "read"
  /\ \/ /\ audio' = IF eof THEN EmptyChunk ELSE nread + 1
        /\ nread' = nread + 1
        /\ rd_pc' = "throttle"
     \/ /\ rd_pc' = after_read_error
        /\ UNCHANGED <<audio, nread>>
  /\ UNCHANGED <<prVars, ioVars, lastpop, attach_hi, wtVars, audio_buffers, maxlen, audio_available, done, writer_is_running,
                 buffering, wr_pc, wr_audio, written, consumer, pipe, nevict>>

\* lines 196-197: sleep while the writer has the pipe open and the buffer is
\* over BUFFER_CHUNKS; the stop flag is not looked at here
rd_throttle ==
  /\ rd_pc = "throttle"
  /\ ~(writer_is_running /\ Len(audio_buffers) > BUFFER_CHUNKS)
  /\ rd_pc' = "append"
  /\ UNCHANGED <<prVars, ioVars, lastpop, attach_hi, wtVars, audio_buffers, maxlen, audio_available, done, writer_is_running,
                 buffering, audio, nread, wr_pc, wr_audio, written,
                 consumer, pipe, nevict>>

\* line 199: self._audio_buffers.append(audio)
rd_append ==
  /\ rd_pc = "append"
  /\ audio_buffers' = deque_append(audio_buffers, maxlen, audio)
  /\ nevict' = IF Len(audio_buffers) >= maxlen THEN nevict + 1 ELSE nevict
  /\ rd_pc' = "release"
  /\ UNCHANGED <<prVars, ioVars, lastpop, attach_hi, wtVars, maxlen, audio_available, done, writer_is_running,
                 buffering, audio, nread, wr_pc, wr_audio, written, consumer, pipe>>

\* one permit, whatever the occupancy
startup_permits_one(len) == 1

\* line 208: release(len(self._audio_buffers))
startup_permits(len) == len

\* a reader that signals every chunk from the first
prefill_permits_each(len) == 1

\* lines 205-207: below the threshold nothing is released
prefill_permits(len) == 0

\* lines 205-210: nothing is released while buffering; at the threshold
\* len(self._audio_buffers) permits; afterwards one permit per chunk
rd_release ==
  /\ rd_pc = "release"
  /\ IF buffering
       THEN IF ReachedStartup(Len(audio_buffers))
              THEN /\ buffering' = FALSE
                   /\ audio_available' = audio_available + startup_permits(Len(audio_buffers))
              ELSE /\ audio_available' = audio_available + prefill_permits(Len(audio_buffers))
                   /\ UNCHANGED buffering
       ELSE /\ audio_available' = audio_available + 1
            /\ UNCHANGED buffering
  /\ audio' = 0
  /\ rd_pc' = "loop"
  /\ UNCHANGED <<prVars, ioVars, lastpop, attach_hi, wtVars, audio_buffers, maxlen, done, writer_is_running,
                 nread, wr_pc, wr_audio, written, consumer, pipe, nevict>>

\* lines 214-215: self._audio_in.close(), and the thread ends
rd_finally ==
  /\ rd_pc = "finally"
  /\ source_open' = FALSE
  /\ rd_pc' = "exit"
  /\ UNCHANGED <<prVars, audio_out, eof, lastpop, attach_hi, wtVars, audio_buffers, maxlen,
                 audio_available, done, writer_is_running, buffering, audio, nread,
                 wr_pc, wr_audio, written, consumer, pipe, nevict>>

reader ==
  rd_loop \/ rd_select \/ rd_read \/ rd_throttle \/ rd_append \/ rd_release \/ rd_finally

(***************************************************************************)
(* PipeWriter._writer(): the writer thread.                                *)
(***************************************************************************)
\* line 125: while not self._done
wr_outer ==
  /\ wr_pc = "outer"
  /\ wr_pc' = IF done THEN "exit" ELSE "open"
  /\ UNCHANGED <<prVars, ioVars, lastpop, attach_hi, wtVars, audio_buffers, maxlen, audio_available, done, writer_is_running,
                 rd_pc, buffering, audio, nread, wr_audio, written,
                 consumer, pipe, nevict>>

\* lines 128-131: open(filename, "wb") returns once a consumer holds the FIFO
\* open for reading; only then is the descriptor made non-blocking
wr_open ==
  /\ wr_pc = "open"
  /\ consumer
  /\ audio_out' = "open"
  /\ writer_is_running' = TRUE
  /\ wr_pc' = "inner"
  /\ UNCHANGED <<prVars, eof, source_open, lastpop, attach_hi, wtVars, audio_buffers, maxlen,
                 audio_available, done, rd_pc, buffering, audio, nread, wr_audio, written,
                 consumer, pipe, nevict>>

\* lines 128 and 165-166: open() raises an OSError (the path can no longer be
\* opened for writing); audio_out keeps the value it had
wr_open_raises ==
  /\ wr_pc = "open"
  /\ wr_pc' = "finally"
  /\ UNCHANGED <<prVars, ioVars, lastpop, attach_hi, wtVars, audio_buffers, maxlen,
                 audio_available, done, writer_is_running, rd_pc, buffering, audio, nread,
                 wr_audio, written, consumer, pipe, nevict>>

\* line 136: while not self._done; past the loop comes the finally clause
wr_inner ==
  /\ wr_pc = "inner"
  /\ wr_pc' = IF done THEN "finally" ELSE "acquire"
  /\ UNCHANGED <<prVars, ioVars, lastpop, attach_hi, wtVars, audio_buffers, maxlen, audio_available, done, writer_is_running,
                 rd_pc, buffering, audio, nread, wr_audio, written,
                 consumer, pipe, nevict>>

\* line 137: acquire(True, ONE_HUNDRED_MS) takes a permit or times out
wr_acquire ==
  /\ wr_pc = "acquire"
  /\ IF audio_available > 0
       THEN /\ audio_available' = audio_available - 1
            /\ wr_pc' = "pop"
       ELSE /\ wr_pc' = "inner"
            /\ UNCHANGED audio_available
  /\ UNCHANGED <<prVars, ioVars, lastpop, attach_hi, wtVars, audio_buffers, maxlen, done, writer_is_running,
                 rd_pc, buffering, audio, nread, wr_audio, written,
                 consumer, pipe, nevict>>

\* an IndexError that is not caught: the finally clause, and out
after_empty_pop_leave == "finally"

\* lines 161-163: except IndexError: pass, and on with the inner loop
after_empty_pop == "inner"

\* lines 142-145 and 161-163: popleft(); IndexError on an empty deque is
\* passed; a chunk of no bytes needs no write
wr_pop ==
  /\ wr_pc = "pop"
  /\ IF audio_buffers = <<>>
       THEN /\ wr_pc' = after_empty_pop
            /\ UNCHANGED <<audio_buffers, wr_audio, lastpop>>
       ELSE /\ audio_buffers' = deque_popleft(audio_buffers).rest
            /\ IF deque_popleft(audio_buffers).item = EmptyChunk
                 THEN /\ wr_pc' = "inner"
                      /\ UNCHANGED <<wr_audio, lastpop>>
                 ELSE /\ wr_audio' = deque_popleft(audio_buffers).item
                      /\ lastpop' = deque_popleft(audio_buffers).item
                      /\ wr_pc' = "flush"
  /\ written' = 0
  /\ UNCHANGED <<prVars, ioVars, attach_hi, wtVars, maxlen, audio_available, done,
                 writer_is_running, rd_pc, buffering, audio, nread, consumer, pipe, nevict>>

\* the whole chunk is offered to write() again
remaining_whole(done_so_far) == ChunkUnits

\* line 149: audio[written:], the part of the chunk not yet written
remaining(done_so_far) == ChunkUnits - done_so_far

\* lines 145-149: while written < len(audio): wait for room in the pipe and
\* write what fits of audio[written:]; with room and no consumer left the
\* write raises (line 165); the stop flag is not looked at here
wr_flush ==
  /\ wr_pc = "flush"
  /\ \/ /\ consumer
        /\ \E k \in 1..remaining(written) :
             /\ pipe + k <= PipeCap
             /\ pipe' = pipe + k
             /\ IF written + k >= ChunkUnits
                  THEN wr_pc' = "inner" /\ written' = 0 /\ wr_audio' = 0
                  ELSE written' = written + k /\ UNCHANGED <<wr_pc, wr_audio>>
     \/ /\ ~consumer
        /\ wr_pc' = "finally"
        /\ UNCHANGED <<pipe, written, wr_audio>>
  /\ UNCHANGED <<prVars, ioVars, lastpop, attach_hi, wtVars, audio_buffers, maxlen, audio_available, done, writer_is_running,
                 rd_pc, buffering, audio, nread, consumer, nevict>>

\* a try statement around the outer loop: an IOError ends the thread
after_finally_leave == "exit"

\* lines 125-126: the try statement is inside the outer loop, which goes on
after_finally == "outer"

\* a finally clause that leaves the Event as it is
event_after_clear_kept(flag) == flag

\* line 168: self.writer_is_running.clear()
event_after_clear(flag) == FALSE

\* lines 167-174: clear the Event; unregister and close audio_out when it is
\* not None, then back to the outer loop; unregister() of a file object that
\* an earlier pass has closed raises ValueError, which nothing catches
wr_finally ==
  /\ wr_pc = "finally"
  /\ writer_is_running' = event_after_clear(writer_is_running)
  /\ wr_audio' = 0
  /\ written' = 0
  /\ IF audio_out = "closed"
       THEN /\ wr_pc' = "raised"
            /\ UNCHANGED audio_out
       ELSE /\ wr_pc' = after_finally
            /\ audio_out' = IF audio_out = "open" THEN "closed" ELSE audio_out
  /\ UNCHANGED <<prVars, eof, source_open, lastpop, attach_hi, wtVars, audio_buffers, maxlen,
                 audio_available, done, rd_pc, buffering, audio, nread, consumer, pipe, nevict>>

writer == wr_outer \/ wr_open \/ wr_inner \/ wr_acquire \/ wr_pop \/ wr_flush \/ wr_finally

(***************************************************************************)
(* PipeWriter.bind(), is_running() and wait().                             *)
(***************************************************************************)
\* Thread.is_alive(): started and its target has not returned
read_thread_alive == rd_pc \notin {"none", "exit"}
write_thread_alive == wr_pc \notin {"none", "exit", "raised"}

\* self._read_thread is not None and self._write_thread is not None
threads_created == rd_pc # "none" /\ wr_pc # "none"

\* line 100: is_running()
pw_is_running == threads_created /\ read_thread_alive /\ write_thread_alive

\* a wait() that goes on only while both threads are alive
wait_condition_both == threads_created /\ read_thread_alive /\ write_thread_alive

\* lines 105-106: the condition of wait()'s loop
wait_condition == threads_created /\ (read_thread_alive \/ write_thread_alive)

\* lines 85-87: bind(callback)
pw_bind ==
  /\ ~callback
  /\ callback' = TRUE
  /\ UNCHANGED <<prVars, ioVars, lastpop, attach_hi, audio_buffers, maxlen, audio_available, done, writer_is_running,
                 rd_pc, buffering, audio, nread, wr_pc, wr_audio, written,
                 consumer, pipe, nevict, wt_pc, nwait, pw_cb, is_fifo>>

\* line 102: a caller enters wait()
wait_call ==
  /\ wt_pc = "idle"
  /\ nwait < MaxWaits
  /\ nwait' = nwait + 1
  /\ wt_pc' = "while"
  /\ UNCHANGED <<prVars, ioVars, lastpop, attach_hi, audio_buffers, maxlen, audio_available, done, writer_is_running,
                 rd_pc, buffering, audio, nread, wr_pc, wr_audio, written,
                 consumer, pipe, nevict, callback, pw_cb, is_fifo>>

\* lines 105-108: test the loop condition; inside the loop the two joins
\* return when their thread has ended or after 0.25 s
wait_while ==
  /\ wt_pc = "while"
  /\ wt_pc' = IF wait_condition THEN "check" ELSE "callback"
  /\ UNCHANGED <<prVars, ioVars, lastpop, attach_hi, audio_buffers, maxlen, audio_available, done, writer_is_running,
                 rd_pc, buffering, audio, nread, wr_pc, wr_audio, written,
                 consumer, pipe, nevict, callback, nwait, pw_cb, is_fifo>>

\* lines 111-112: if not self.is_running(): self.stop()
wait_check ==
  /\ wt_pc = "check"
  /\ done' = IF pw_is_running THEN done ELSE TRUE
  /\ wt_pc' = "while"
  /\ UNCHANGED <<prVars, ioVars, lastpop, attach_hi, audio_buffers, maxlen, audio_available, writer_is_running,
                 rd_pc, buffering, audio, nread, wr_pc, wr_audio, written,
                 consumer, pipe, nevict, callback, nwait, pw_cb, is_fifo>>

\* lines 114 and 89-91: _do_callback(FINISHED, 0), then wait() returns
wait_callback ==
  /\ wt_pc = "callback"
  /\ pw_cb' = IF callback THEN Append(pw_cb, FINISHED) ELSE pw_cb
  /\ wt_pc' = "idle"
  /\ UNCHANGED <<prVars, ioVars, lastpop, attach_hi, audio_buffers, maxlen, audio_available, done, writer_is_running,
                 rd_pc, buffering, audio, nread, wr_pc, wr_audio, written,
                 consumer, pipe, nevict, callback, nwait, is_fifo>>

pw_wait == wait_call \/ wait_while \/ wait_check \/ wait_callback

(***************************************************************************)
(* The consumer at the far end of the destination FIFO.                    *)
(***************************************************************************)
\* chunks appended to the deque so far: all that were read, but for one the
\* reader still holds between lines 195 and 199
npushed == IF rd_pc \in {"throttle", "append"} THEN nread - 1 ELSE nread

ConsumerAttach ==
  /\ ~consumer
  /\ consumer' = TRUE
  /\ attach_hi' = npushed
  /\ UNCHANGED <<prVars, ioVars, lastpop, wtVars, audio_buffers, maxlen, audio_available, done,
                 writer_is_running, rd_pc, buffering, audio, nread, wr_pc, wr_audio, written,
                 pipe, nevict>>

ConsumerDetach ==
  /\ consumer
  /\ consumer' = FALSE
  /\ pipe' = 0
  /\ attach_hi' = 0
  /\ UNCHANGED <<prVars, ioVars, lastpop, wtVars, audio_buffers, maxlen, audio_available, done,
                 writer_is_running, rd_pc, buffering, audio, nread, wr_pc, wr_audio, written,
                 nevict>>

ConsumerRead ==
  /\ consumer
  /\ pipe > 0
  /\ pipe' = pipe - 1
  /\ UNCHANGED <<prVars, ioVars, lastpop, attach_hi, wtVars, audio_buffers, maxlen, audio_available, done, writer_is_running,
                 rd_pc, buffering, audio, nread, wr_pc, wr_audio, written,
                 consumer, nevict>>

\* the producer closes the far end of the source: end of stream
SourceEof ==
  /\ ~eof
  /\ eof' = TRUE
  /\ UNCHANGED <<prVars, audio_out, source_open, lastpop, attach_hi, wtVars, audio_buffers,
                 maxlen, audio_available, done, writer_is_running, rd_pc, buffering, audio,
                 nread, wr_pc, wr_audio, written, consumer, pipe, nevict>>

(***************************************************************************)
(* The relay as a whole: the state after __init__ on a FIFO (lines 69-83). *)
(***************************************************************************)
\* lines 61-63 and 79-83: the threads exist only when the path is a FIFO
reader_start_always(fifo) == "loop"
reader_start(fifo) == IF fifo THEN "loop" ELSE "none"
writer_start(fifo) == IF fifo THEN "outer" ELSE "none"

\* the state after __init__(audio_in, audio_out_filename)
InitPWOn(fifo) ==
  /\ is_fifo = fifo
  /\ audio_buffers = <<>>
  /\ maxlen = MAX_CHUNKS
  /\ audio_available = 0
  /\ done = FALSE
  /\ writer_is_running = FALSE
  /\ rd_pc = reader_start(fifo)
  /\ buffering = TRUE
  /\ audio = 0
  /\ nread = 0
  /\ wr_pc = writer_start(fifo)
  /\ wr_audio = 0
  /\ written = 0
  /\ consumer = FALSE
  /\ pipe = 0
  /\ nevict = 0
  /\ callback = FALSE
  /\ wt_pc = "idle"
  /\ nwait = 0
  /\ pw_cb = <<>>
  /\ lastpop = 0
  /\ attach_hi = 0
  /\ audio_out = "none"
  /\ eof = FALSE
  /\ source_open = TRUE

InitPW == InitPWOn(TRUE)

\* a relay constructed on any destination path
InitPWAny == \E fifo \in BOOLEAN : InitPWOn(fifo)

NextPW ==
  \/ pw_stop
  \/ pw_bind
  \/ pw_wait
  \/ reader
  \/ writer
  \/ ConsumerAttach
  \/ ConsumerDetach
  \/ ConsumerRead

\* the relay when the source may end and open() may fail
NextPWFault ==
  \/ NextPW
  \/ wr_open_raises
  \/ SourceEof

(***************************************************************************)
(* A chunk buffer alone: deque(maxlen=n) for any n, and pushes only.       *)
(***************************************************************************)
InitBuf ==
  /\ audio_buffers = <<>>
  /\ maxlen \in 1..MaxCap
  /\ audio_available = 0
  /\ done = FALSE
  /\ writer_is_running = FALSE
  /\ rd_pc = "append"
  /\ buffering = TRUE
  /\ audio = 0
  /\ nread = 0
  /\ wr_pc = "outer"
  /\ wr_audio = 0
  /\ written = 0
  /\ consumer = FALSE
  /\ pipe = 0
  /\ nevict = 0
  /\ callback = FALSE
  /\ wt_pc = "idle"
  /\ nwait = 0
  /\ pw_cb = <<>>
  /\ lastpop = 0
  /\ attach_hi = 0
  /\ audio_out = "none"
  /\ eof = FALSE
  /\ source_open = TRUE
  /\ is_fifo = TRUE

\* push chunk number nread + 1
buf_push ==
  /\ nread < MaxPush
  /\ nread' = nread + 1
  /\ audio_buffers' = deque_append(audio_buffers, maxlen, nread + 1)
  /\ nevict' = IF Len(audio_buffers) >= maxlen THEN nevict + 1 ELSE nevict
  /\ UNCHANGED <<prVars, ioVars, lastpop, attach_hi, wtVars, maxlen, audio_available, done, writer_is_running,
                 rd_pc, buffering, audio, wr_pc, wr_audio, written, consumer, pipe>>

NextBuf == buf_push

(***************************************************************************)
(* Specifications.                                                         *)
(***************************************************************************)
\* a supervisor after __init__, beside a relay that is left alone
InitSupervisor == InitPR /\ InitPW

\* the same first state, for the clients that pass None
InitSupervisorNone == InitPR /\ InitPW

\* the same first state, for the client that calls stop() and wait()
InitSupervisorClient == InitPR /\ InitPW

\* a relay after __init__, beside a supervisor that is left alone
InitRelay == InitPR /\ InitPW

\* the same first state, for a source that may end and an open() that may fail
InitRelayFault == InitPR /\ InitPW

\* a relay after __init__ on a destination that may or may not be a FIFO
InitRelayAny == InitPR /\ InitPWAny

\* a chunk buffer of some capacity
InitBuffer == InitPR /\ InitBuf

\* the same first state, for the clients that ask for piped streams
InitSupervisorStreams == InitPR /\ InitPW

\* the supervisor when start() is passed stdin, stdout and stderr arguments
SpecPRStreams == InitSupervisorStreams /\ [][NextPRStreams]_vars

\* the same first state, for the client whose callback calls stop()
InitSupervisorCallback == InitPR /\ InitPW

\* the supervisor when the STARTED callback may call stop()
SpecPRCallback == InitSupervisorCallback /\ [][NextPRCallback]_vars

\* the orchestrator after Radio.__init__: a supervisor and no relay
InitRadio == InitPR /\ InitPW

\* the orchestrator's supervisor, callback and relays
SpecRadio == InitRadio /\ [][NextRadio]_vars

\* the supervisor alone
SpecPR == InitSupervisor /\ [][NextPR]_vars

\* the supervisor when start() may be passed None
SpecPRNone == InitSupervisorNone /\ [][NextPRNone]_vars

\* the supervisor with a client that calls stop() and wait() itself
SpecPRClient == InitSupervisorClient /\ [][NextPRClient]_vars

\* the same, the client's thread being scheduled as long as it is in stop()
SpecPRClientFair == SpecPRClient /\ WF_vars(stop("ext"))

\* the relay alone
SpecPW == InitRelay /\ [][NextPW]_vars

\* the relay with both of its threads scheduled fairly: a thread that can take
\* a step again and again does take one (so an open() that a consumer makes
\* possible again and again does return); nothing obliges the source to
\* deliver, a consumer to attach or to read, or the owner to stop
SpecPWFair == SpecPW /\ SF_vars(reader) /\ SF_vars(writer) /\ WF_vars(pw_wait)

\* the relay when the source may end and open() may fail
SpecPWFault == InitRelayFault /\ [][NextPWFault]_vars

\* the relay on any destination path
SpecPWAny == InitRelayAny /\ [][NextPW]_vars

\* a chunk buffer alone, of any capacity, under pushes only
SpecBuf == InitBuffer /\ [][NextBuf]_vars

(***************************************************************************)
(* Properties of the supervisor.                                           *)
(***************************************************************************)
\* watcher w has delivered STARTED for its child and not yet the STOPPED after it
Open(w) == wpc[w] \in {"prewait", "wait", "stopped"}

\* the child watcher w spawned last
OwnChild(w) == CHOOSE p \in Children :
                 /\ procs[p].req = w
                 /\ \A q \in Children : procs[q].req = w => q <= p

\* watcher w delivers the STARTED callback in this step
DeliversStarted(w) == wpc[w] = "started" /\ wpc'[w] = "prewait"
\* watcher w delivers the STOPPED callback in this step
DeliversStopped(w) == wpc[w] = "stopped" /\ wpc'[w] = "test"
\* stop() returns to caller c in this step
Returns(c) == spc[c] = "return" /\ spc'[c] = "ret"

\* C1: at most one child process spawned by the supervisor is alive at any
\* instant, whatever the start() requests and the interleaving of the intake
\* thread with the watcher threads.
C1_AtMostOneLiveChild == Cardinality(LiveChildren) <= 1

\* C2: launch order matches request order: no child of a request is spawned
\* before a child of every earlier request has been spawned.
C2_LaunchOrderIsRequestOrder ==
  \A p \in Children : \A r \in 1..(procs[p].req - 1) :
    \E q \in 1..(p - 1) : procs[q].req = r

\* C3: the STARTED callback of a new command never begins before the STOPPED
\* callback of every older command that was started has been delivered.
C3_StoppedBeforeNextStarted ==
  [][\A w \in Watchers : DeliversStarted(w) => \A v \in 1..(w - 1) : ~Open(v)]_vars

\* C4: stop() returns True only when no child of the supervisor is alive at
\* the moment of return, and returns False when the child is still alive after
\* both polling stages.
C4_StopTrueOnlyIfExited ==
  [][\A c \in Callers :
       /\ (Returns(c) /\ sret'[c]) => LiveChildren' = {}
       /\ (spc[c] = "check2" /\ spc'[c] = "return" /\ Alive(process)) => ~sret'[c]]_vars

\* C5: stop() sends the graceful signal first and the kill signal only to a
\* child that was sent the graceful signal and has still not reported an exit
\* after the first polling stage; it never sends kill when that child exited
\* during the first stage.
C5_TwoStageEscalation ==
  [][\A c \in Callers :
       (spc[c] = "kill" /\ spc'[c] = "poll2" /\ procs'[process].kill) =>
          /\ sterm[c] = process
          /\ procs[sterm[c]].returncode = None]_vars

\* C6: after its child has exited, a watcher relaunches the command if and
\* only if restart was requested and the child's exit code is non-negative;
\* otherwise the watcher ends.
C6_RestartPolicy ==
  [][\A w \in Watchers :
       (wpc[w] = "test" /\ wpc'[w] # "test") =>
          /\ wpc'[w] \in {"popen", "done"}
          /\ wpc'[w] = "popen" <=>
               /\ wrestart[w]
               /\ procs[OwnChild(w)].exit # None
               /\ procs[OwnChild(w)].exit[1] >= 0]_vars

\* C7: lifecycle callbacks come in causal order: STARTED with code 0 and
\* STOPPED with the exit code of the watcher's own child strictly alternate
\* over the whole supervisor, starting with STARTED.
C7_CallbacksAlternate ==
  [][\A w \in Watchers :
       /\ DeliversStarted(w) => lastcb.state # STARTED /\ lastcb'.rc = Some(0)
       /\ DeliversStopped(w) =>
            /\ lastcb.state = STARTED
            /\ lastcb'.rc # None
            /\ lastcb'.rc = procs[OwnChild(w)].exit]_vars

(***************************************************************************)
(* Properties of the relay and of its chunk buffer.                        *)
(***************************************************************************)
Min(a, b) == IF a <= b THEN a ELSE b

\* the reader appends its chunk to the deque in this step
Pushes == rd_pc = "append" /\ rd_pc' = "release"

\* C8: the relay's chunk buffer never holds more than MAX_CHUNKS chunks; a
\* push is never blocked and never raises, and a push onto a full buffer
\* discards the oldest chunk and keeps the new one.
C8_BufferBounded ==
  /\ [](Len(audio_buffers) <= MAX_CHUNKS /\ (rd_pc = "append" => ENABLED rd_append))
  /\ [][(Pushes /\ Len(audio_buffers) = MAX_CHUNKS) =>
          audio_buffers' = Append(Tail(audio_buffers), audio)]_vars

\* a push onto a full buffer has just happened
C8_Witness ==
  rd_pc = "release" /\ nevict > 0 /\ Len(audio_buffers) = MAX_CHUNKS
    /\ audio_buffers[MAX_CHUNKS] = audio

\* C9: after count pushes and no pop on a buffer of capacity N, the buffer
\* holds exactly the min(N, count) most recently pushed chunks, in push order.
C9_KeepsMostRecent ==
  LET k == Min(maxlen, nread)
  IN  /\ Len(audio_buffers) = k
      /\ \A i \in 1..k : audio_buffers[i] = nread - k + i

\* ten pushes into capacity four leave chunks 7..10
C9_Witness == maxlen = 4 /\ nread = 10 /\ audio_buffers = <<7, 8, 9, 10>>

\* C10: once stop() has set the stop flag, the reader loop and the writer
\* loop both exit eventually.
C10_StopEndsBothLoops == done ~> (rd_pc = "exit" /\ wr_pc = "exit")

\* PipeWriter.wait() returns to its caller in this step
WaitReturns == wt_pc = "callback" /\ wt_pc' = "idle"

\* C11: wait() on a relay whose threads were started returns only after the
\* reader thread and the writer thread have both exited, and a bound callback
\* is called with FINISHED exactly once per wait() call, at that return and
\* at no other step.
C11_WaitReturnsAfterBothExit ==
  [][/\ (WaitReturns /\ is_fifo) => (rd_pc = "exit" /\ wr_pc = "exit")
     /\ (WaitReturns /\ callback) => pw_cb' = Append(pw_cb, FINISHED)
     /\ ~WaitReturns => pw_cb' = pw_cb]_vars

\* a first wait() has returned from a relay that ran, and reported FINISHED once
C11_Witness ==
  /\ is_fifo /\ nread > 0 /\ nwait = 1 /\ wt_pc = "idle"
  /\ pw_cb = <<FINISHED>> /\ rd_pc = "exit" /\ wr_pc = "exit"

\* C12: when one of the two loops has exited while a caller is in wait(),
\* wait() sets the stop flag and then returns; it does not hang.
C12_WaitDoesNotHang ==
  (wt_pc \in {"while", "check"} /\ is_fifo /\ (rd_pc = "exit" \/ wr_pc = "exit"))
    ~> (done /\ wt_pc = "idle")

\* C13: a relay constructed on a path that is not a FIFO has no thread:
\* is_running() is false for good and the source is neither read nor closed;
\* and is_running() is true only while both threads are inside their loops.
C13_NoThreadOffFifo ==
  /\ ~is_fifo => /\ rd_pc = "none" /\ wr_pc = "none"
                 /\ ~pw_is_running
                 /\ nread = 0 /\ audio = 0
  /\ pw_is_running => (rd_pc \notin {"none", "exit"} /\ wr_pc \notin {"none", "exit"})

\* a relay off a FIFO that was stopped and waited for
C13_Witness == ~is_fifo /\ done /\ nwait = 1 /\ wt_pc = "idle" /\ callback

\* C14: a relay constructed on a path that is not a FIFO reports ERROR through
\* its callback and never reports FINISHED.
C14_NotFifoReportsError ==
  ~is_fifo => \A i \in 1..Len(pw_cb) : pw_cb[i] = ERROR

\* the chunks of q are in push order: their numbers increase
Increasing(q) == \A i \in 1..(Len(q) - 1) : q[i] < q[i + 1]

\* C15: while no consumer holds the destination open, no step of the writer
\* ends the writer thread, sets the stop flag or ends the reader; and once a
\* consumer is attached, the writer pops the oldest chunk each time, so that
\* no chunk pushed after the attachment is written while a chunk pushed
\* before it is still buffered.
C15_NoConsumerThenInOrder ==
  /\ [][(~consumer /\ wr_pc' # wr_pc) =>
          /\ wr_pc' = "exit" => done
          /\ done' = done /\ rd_pc' = rd_pc]_vars
  /\ [][lastpop' # lastpop =>
          \A i \in 1..Len(audio_buffers') : audio_buffers'[i] > lastpop']_vars
  /\ []((consumer /\ wr_audio > attach_hi) =>
          \A i \in 1..Len(audio_buffers) : audio_buffers[i] > attach_hi)

\* two chunks were buffered before the consumer attached, both were written,
\* and a chunk pushed after the attachment is being written
C15_Witness ==
  /\ consumer /\ attach_hi = 2 /\ nevict = 0
  /\ wr_pc = "flush" /\ wr_audio = 3 /\ written > 0

\* C16: what the writer pops is a subsequence of what the reader pushed: each
\* popped chunk is newer than the one popped before it, whatever the
\* destination does; and as long as nothing was evicted the pops are chunk
\* 1, 2, 3, ... without a gap and the buffer holds every chunk not yet popped.
C16_OrderPreserved ==
  /\ [][lastpop' # lastpop =>
          /\ lastpop' > lastpop /\ lastpop' <= npushed
          /\ wr_audio' = lastpop'
          /\ nevict = 0 => lastpop' = lastpop + 1]_vars
  /\ [](/\ Increasing(audio_buffers)
        /\ nevict = 0 =>
             audio_buffers = [i \in 1..(npushed - lastpop) |-> lastpop + i])

\* the last chunk of the source has been popped after an eviction, for a
\* consumer that attached midway
C16_Witness ==
  /\ nevict > 0 /\ nread = MaxReads /\ lastpop = nread
  /\ wr_pc = "inner" /\ consumer /\ attach_hi > 0 /\ attach_hi < lastpop

(***************************************************************************)
(* Properties of the supervisor's stop(), is_running(), wait() and of      *)
(* requests without a command.                                             *)
(***************************************************************************)
\* C17: stop() entered when there is no child, or when the current child has a
\* returncode, goes straight to `return True`: it sends no signal and changes
\* neither the children, nor the current child, nor the queue, nor the
\* watcher; and a stop() that has sent no signal returns True.
C17_StopWithoutLiveChild ==
  [][\A c \in Callers :
       /\ (/\ spc[c] = "enter" /\ spc'[c] # "enter"
           /\ (process = 0 \/ procs[process].returncode # None)) =>
            /\ spc'[c] = "return" /\ sret'[c]
            /\ sterm'[c] = 0 /\ skill'[c] = 0
            /\ procs' = procs /\ process' = process
            /\ queue' = queue /\ watcher' = watcher /\ wpc' = wpc
       /\ (Returns(c) /\ sterm[c] = 0) => (sret'[c] /\ skill[c] = 0)]_vars

\* a client's stop() has returned True without a signal, the current child
\* having exited and been reaped before the call
C17_Witness ==
  /\ spc["ext"] = "ret" /\ sret["ext"] /\ sterm["ext"] = 0
  /\ process # 0 /\ procs[process].returncode # None /\ ~procs[process].term

\* C18: from the return of start() until the child of the request exits,
\* is_running() is true.
C18_RunningRightAfterStart ==
  (nreq >= 1 /\ \A p \in Children : procs[p].exit = None) => is_running

\* C19: no step of ProcessRunner.wait() sends a signal, enqueues a request,
\* spawns or ends a child or changes the current child; wait() goes on to
\* Popen.wait() exactly when a child exists without a returncode, and comes
\* back from it only once that child has exited.
C19_WaitOnlyWaits ==
  [][xw_pc' # xw_pc =>
       /\ queue' = queue /\ nreq' = nreq /\ process' = process
       /\ Len(procs') = Len(procs)
       /\ \A p \in Children :
            /\ procs'[p].term = procs[p].term /\ procs'[p].kill = procs[p].kill
            /\ procs'[p].exit = procs[p].exit
       /\ xw_pc = "enter" =>
            /\ xw_pc' \in {"call", "ret"}
            /\ xw_pc' = "call" <=> (process # 0 /\ procs[process].returncode = None)
       /\ xw_pc = "blocked" =>
            (procs'[xwobj].exit # None /\ procs'[xwobj].returncode # None)]_vars

\* a wait() that blocked on a running child has returned after its exit, no
\* signal having been sent
C19_Witness ==
  /\ xw_pc = "ret" /\ xwobj # 0 /\ procs[xwobj].exit \in {Some(0), Some(1)}
  /\ spc["ext"] = "idle" /\ ncalls = 1

\* the intake thread takes a request without a command off the queue in this step
TakesNone == mpc = "get" /\ queue # <<>> /\ Head(queue).cmd = None /\ queue' = Tail(queue)

\* C20: a request without a command is dropped by the intake thread, which
\* stays in its loop: no watcher, no child and no callback ever belong to it,
\* no stop() is started for it and the current child is left as it is.
C20_NoneCommandDropped ==
  /\ [][TakesNone =>
          /\ mpc' = "get" /\ mreq' = mreq
          /\ procs' = procs /\ process' = process /\ lastcb' = lastcb
          /\ wpc' = wpc /\ watcher' = watcher /\ spc' = spc]_vars
  /\ [](/\ \A p \in Children : procs[p].req \notin nonereq
        /\ \A w \in nonereq : wpc[w] = "unborn"
        /\ lastcb.w \notin nonereq)

\* a request made after one without a command has been served: its child runs
C20_Witness ==
  /\ nonereq = {1} /\ queue = <<>> /\ Len(procs) = 1 /\ procs[1].req = 2
  /\ Alive(1) /\ lastcb = [state |-> STARTED, rc |-> Some(0), w |-> 2]

(***************************************************************************)
(* Failures, termination of stop(), and the reader's and writer's loops.   *)
(***************************************************************************)
\* C21: a watcher thread that ends because its spawn raised has told the
\* caller: the step that ends it delivers a lifecycle callback.
C21_SpawnFailureReported ==
  [][\A w \in Watchers :
       (wpc[w] = "popen" /\ wpc'[w] = "raised") =>
          (lastcb' # lastcb /\ lastcb'.w = w)]_vars

\* C22: a stop() that was entered returns; each polling stage makes at most
\* PollIters rounds, and after the kill stage there is no further signal.
C22_StopTerminates ==
  /\ (spc["ext"] \notin {"idle", "ret"}) ~> (spc["ext"] = "ret")
  /\ [](\A c \in Callers : si[c] <= PollIters)
  /\ [][\A c \in Callers :
          /\ spc[c] \in {"poll2", "check2"} => spc'[c] \in {"poll2", "check2", "return"}
          /\ spc[c] \in {"poll1", "check1"} =>
               spc'[c] \in {"poll1", "check1", "kill", "return"}]_vars

\* stop() has returned False: the child was sent both signals and has not exited
C22_Witness ==
  /\ spc["ext"] = "ret" /\ ~sret["ext"]
  /\ skill["ext"] = process /\ sterm["ext"] = process /\ Alive(process)

\* the reader passes lines 205-210 in this step
Releases == rd_pc = "release" /\ rd_pc' = "loop"

\* C23: two-phase fill: below half of MAX_CHUNKS the reader releases nothing;
\* at the push that reaches it, it releases one permit per buffered chunk and
\* leaves the buffering phase; from then on it releases one permit per push
\* and never buffers again, whatever the occupancy becomes.
C23_TwoPhaseFill ==
  /\ [][Releases =>
          /\ (buffering /\ 2 * Len(audio_buffers) < MAX_CHUNKS) =>
               (audio_available' = audio_available /\ buffering')
          /\ (buffering /\ 2 * Len(audio_buffers) >= MAX_CHUNKS) =>
               (audio_available' = audio_available + Len(audio_buffers) /\ ~buffering')
          /\ ~buffering => (audio_available' = audio_available + 1 /\ ~buffering')]_vars
  /\ [][~Releases => (buffering' = buffering /\ audio_available' <= audio_available)]_vars
  /\ [](buffering => /\ audio_available = 0
                     /\ rd_pc # "release" => 2 * Len(audio_buffers) < MAX_CHUNKS)

\* streaming: the buffer had drained to empty and the push after that has
\* released one permit
C23_Witness ==
  /\ ~buffering /\ rd_pc = "loop" /\ nevict = 0 /\ nread >= 3
  /\ audio_buffers = <<nread>> /\ lastpop = nread - 1 /\ audio_available = 1

\* C24: a reader waiting in the throttle of lines 196-197 gets on: it pushes
\* its chunk or leaves on stop.
C24_ThrottleLetsGo ==
  (rd_pc = "throttle") ~> (rd_pc \in {"append", "finally", "exit"})

\* C25: the writer does not stay in the open of the destination: it always
\* comes back from it, to look at the stop flag again.
C25_OpenNeverBlocks == (wr_pc = "open") ~> (wr_pc # "open")

\* C26: no failed open and no failed write ends the writer thread: the writer
\* thread never ends with an exception.
C26_WriterRecovers == wr_pc # "raised"

\* C27: at the end of the stream the reader pushes no chunk of no bytes.
C27_EofEndsReader ==
  \A i \in 1..Len(audio_buffers) : audio_buffers[i] # EmptyChunk

\* C28: a reader thread that has ended has closed the source, whichever way
\* it left the loop; and a reader that has left the loop pushes no chunk,
\* releases no permit and reads no more.
C28_ReaderClosesSource ==
  /\ [](rd_pc = "exit" => ~source_open)
  /\ [][(rd_pc \in {"finally", "exit"}) =>
          (/\ rd_pc' \in {"finally", "exit"}
           /\ audio_available' <= audio_available
           /\ Len(audio_buffers') <= Len(audio_buffers)
           /\ nread' = nread)]_vars

\* the reader has ended on an IOError, chunks still buffered, no stop requested
C28_Witness ==
  /\ rd_pc = "exit" /\ ~source_open /\ ~done /\ Len(audio_buffers) >= 2

EmptyPop == wr_pc = "pop" /\ audio_buffers = <<>> /\ wr_pc' # "pop"

\* C30: a popleft() on an empty deque changes nothing but the writer's place:
\* it goes back to the inner loop with the destination open and the Event
\* set, having written nothing.
C30_EmptyPopIsBenign ==
  [][EmptyPop =>
      (/\ wr_pc' = "inner"
       /\ audio_out = "open" /\ audio_out' = "open"
       /\ writer_is_running /\ writer_is_running'
       /\ audio_buffers' = <<>> /\ audio_available' = audio_available
       /\ pipe' = pipe /\ wr_audio' = 0 /\ lastpop' = lastpop
       /\ done' = done /\ rd_pc' = rd_pc)]_vars

\* the writer is back in its inner loop after a permit found the deque empty:
\* in the streaming phase, with both threads between two chunks, the permits
\* acquired without a chunk number nevict + len - value of the semaphore
C30_Witness ==
  /\ ~buffering /\ rd_pc = "loop" /\ wr_pc = "inner" /\ audio_buffers = <<>>
  /\ nevict - audio_available >= 1 /\ writer_is_running /\ ~done

\* C31: one chunk at a time: while the writer is in the loop of lines 145-149
\* it pops nothing; every write puts into the pipe the units of the chunk
\* that follow those already written, as many as written advances by; the
\* writer goes on to the next permit only when the units written add up to
\* the chunk, each once, and leaves the chunk unfinished only on a failed
\* write, with no consumer at the far end.
C31_OneChunkAtATime ==
  [][(wr_pc = "flush") =>
       (/\ lastpop' = lastpop /\ wr_pc' \in {"flush", "inner", "finally"}
        /\ (wr_pc' = "flush" /\ pipe' > pipe) =>
             (written' = written + (pipe' - pipe) /\ written' < ChunkUnits
                /\ wr_audio' = wr_audio /\ audio_buffers' = audio_buffers)
        /\ (wr_pc' = "flush" /\ pipe' <= pipe) => written' = written
        /\ wr_pc' = "inner" => written + (pipe' - pipe) = ChunkUnits
        /\ wr_pc' = "finally" => (~consumer /\ pipe' = pipe))]_vars

\* the writer is between two writes of one chunk: a part of it is in the
\* pipe, the pipe is full and the rest waits for the consumer to read
C31_Witness ==
  /\ wr_pc = "flush" /\ consumer /\ wr_audio = lastpop
  /\ written > 0 /\ written < ChunkUnits /\ pipe = PipeCap

\* C32: get_stdin(), get_stdout() and get_stderr() return the pipe of the
\* current child when the start() call that launched it asked for that
\* stream to be piped, and None when it did not or when there is no child
\* yet; and when a watcher delivers STARTED, get_stdout() is the stdout pipe
\* of the child that watcher has just spawned (None when it was not asked).
C32_StreamsOfOwnChild ==
  [][/\ \A s \in Streams :
          get_stream(s) = IF process = 0 THEN None
                          ELSE IF s \in piped[procs[process].req]
                                 THEN PipeOf(process, s) ELSE None
     /\ \A w \in Watchers :
          DeliversStarted(w) =>
            get_stdout = IF "stdout" \in piped[w]
                           THEN PipeOf(OwnChild(w), "stdout") ELSE None]_vars

\* C33: a stop() in progress deals with one child: from the graceful signal
\* to the return statement self._process is the Popen that received
\* terminate(), and the Popen that receives kill() is that same Popen.
C33_StopKeepsItsChild ==
  \A c \in Callers :
    /\ spc[c] \in {"poll1", "check1", "kill", "poll2", "check2"} => process = sterm[c]
    /\ skill[c] # 0 => skill[c] = sterm[c]

CallbackSignals ==
  \/ spc["cb"] = "terminate" /\ spc'["cb"] = "poll1"
  \/ spc["cb"] = "kill" /\ spc'["cb"] = "poll2"

C35_PrefillHeldBack ==
  /\ [](buffering => /\ audio_available = 0 /\ lastpop = 0 /\ pipe = 0
                     /\ wr_pc \notin {"pop", "flush"} /\ wr_audio = 0)
  /\ [](lastpop # 0 => 2 * npushed >= MAX_CHUNKS)
  /\ [][(buffering /\ rd_pc \in {"finally", "exit"}) =>
          (buffering' /\ audio_buffers' = audio_buffers /\ audio_available' = 0)]_vars

\* the reader has ended on an error of the source with one chunk buffered,
\* below the threshold; a consumer is there and the writer waits for a permit
C35_Witness ==
  /\ buffering /\ rd_pc = "exit" /\ ~done /\ audio_buffers = <<1>>
  /\ consumer /\ writer_is_running /\ wr_pc = "acquire" /\ audio_available = 0

\* C36: the Event writer_is_running is set only while the writer thread has
\* the destination open and is in or just past its inner loop; it is clear
\* once the writer thread has ended, by return or by exception; and the
\* reader is held in its throttle only while the destination is open.
C36_EventOnlyWhileOpen ==
  /\ writer_is_running =>
       (audio_out = "open" /\ wr_pc \in {"inner", "acquire", "pop", "flush", "finally"})
  /\ wr_pc \in {"outer", "open", "exit", "raised", "none"} => ~writer_is_running
  /\ (rd_pc = "throttle" /\ writer_is_running /\ Len(audio_buffers) > BUFFER_CHUNKS) =>
       audio_out = "open"

\* the writer thread has ended after a stop; it had opened the destination,
\* set the Event and written a chunk; the destination is closed, the Event clear
C36_Witness ==
  /\ wr_pc = "exit" /\ done /\ audio_out = "closed" /\ lastpop # 0 /\ ~writer_is_running

\* the STOPPED callback on watcher w stops a relay, or clears the relay
\* reference, in this step
StopsRelay(w) == wpc[w] = "cb_stop" /\ wpc'[w] = "cb_wait"
ClearsRelay(w) == wpc[w] = "cb_clear" /\ wpc'[w] = "test"

\* C37: the orchestrator has at most one relay that was not stopped; the
\* relay reference, when set, is the relay made on the STARTED callback of
\* the child self._process; and the STOPPED callback of a watcher stops,
\* waits for and clears the relay that the STARTED callback of that same
\* watcher made, never the relay of another child.
C37_OneRelayPerChild ==
  [][/\ Cardinality({r \in 1..Len(relays) : ~relays[r].done}) <= 1
     /\ owntone_output # 0 => relays[owntone_output].w = procs[process].req
     /\ \A w \in Watchers :
          /\ StopsRelay(w) => relays[owntone_output].w = w
          /\ wpc[w] = "cb_waiting" => relays[rwait[w]].w = w
          /\ ClearsRelay(w) => (owntone_output # 0 /\ relays[owntone_output].w = w)]_vars

====
